---- MODULE Spec2Model ----
(***************************************************************************)
(* Route-plausibility resolution of adsb_api/app.py:                       *)
(*   get_route_for_callsign_lat_lng  (resolve)                             *)
(*   api_route3, api_route, api_routeset (resolveAll)                      *)
(* The route store (redisVRS.get_route) and the plausibility oracle        *)
(* (adsb_api.utils.plausible.plausible) are external collaborators: the    *)
(* store is a table of records, the oracle a fixed but arbitrary function  *)
(* of its six text arguments that may also raise.                          *)
(***************************************************************************)
EXTENDS Integers, Sequences, FiniteSets, TLC

VARIABLES
    store,        \* callsign -> the record redisVRS.get_route hands out
    oracle,       \* the oracle's answer for every well-formed argument tuple
    sharing,      \* TRUE: the store hands out the same dict object every time
    pc,           \* position of the request handler
    kind,         \* which endpoint is running: "route3", "route", "routeset"
    planes,       \* planeList.planes of the running request
    idx,          \* index of the plane being resolved (1-based)
    callsign, lat, lng,              \* arguments of the running resolve
    route, a, is_plausible, distance, \* its locals
    fetched,      \* the record as get_route delivered it to the running resolve
    calls,        \* the oracle calls it made (the "checking A-B" trace)
    response,     \* api_routeset's response list
    result,       \* what the endpoint returned to the HTTP layer
    prev          \* outcome of the preceding resolve of the same arguments

vars == <<store, oracle, sharing, pc, kind, planes, idx, callsign, lat, lng,
          route, fetched, a, is_plausible, distance, calls, response, result,
          prev>>

\* ------------------------------------------------------------------ bounds
\* Longest airport chain the store holds for a known route.
MaxChain == 3
\* Longest planeList.planes of a routeset request.
MaxBatch == 2

\* ------------------------------------------------------- the store's data
\* Coordinates are held in units of 1e-6 degree, formatted text in 1e-5.
Airport(i) ==
    [icao |-> "K" \o ToString(i), iata |-> "I" \o ToString(i),
     lat |-> (9 + i) * 1000000 + 4, lon |-> (19 + i) * 1000000 + 15]

Chain(n) == [i \in 1..n |-> Airport(i)]

UnknownRoute(cs) ==
    [callsign |-> cs, airport_codes |-> "unknown", _airports |-> <<>>]

KnownRoute(cs, n) ==
    [callsign |-> cs, airport_codes |-> "K1-K" \o ToString(n), _airports |-> Chain(n)]

\* A record whose airport_codes names airports of which the store could
\* resolve only one.
ShortRoute(cs) ==
    [callsign |-> cs, airport_codes |-> "K1-ZZZZ", _airports |-> Chain(1)]

Callsigns == {"CALLSIGN1", "CALLSIGN2", "CALLSIGN3"}

StoreWith(n) ==
    [cs \in Callsigns |->
        CASE cs = "CALLSIGN1" -> KnownRoute(cs, n)
          [] cs = "CALLSIGN2" -> UnknownRoute(cs)
          [] OTHER -> ShortRoute(cs)]

\* The record without the annotation resolve adds.
Core(r) == [f \in DOMAIN r \ {"plausible"} |-> r[f]]

\* ------------------------------------------------------------- positions
GoodPos == [lat |-> "50.03330", lng |-> "8.57050"]
BadPos == [lat |-> "abc", lng |-> "8.57050"]
Positions == {GoodPos, BadPos}
WellFormed(la, lo) == la = GoodPos.lat /\ lo = GoodPos.lng

Plane(cs, p) == [callsign |-> cs, lat |-> p.lat, lng |-> p.lng]
Planes == {Plane(cs, p) : cs \in Callsigns, p \in Positions}
\* The planes a routeset request is built from: every callsign at a
\* well-formed position, and one plane whose position is malformed.
BatchPlanes == {Plane(cs, GoodPos) : cs \in Callsigns} \cup {Plane("CALLSIGN1", BadPos)}

RECURSIVE SeqsUpTo(_, _)
SeqsUpTo(S, n) ==
    IF n = 0 THEN {<<>>}
    ELSE LET shorter == SeqsUpTo(S, n - 1)
         IN shorter \cup {Append(s, x) : s \in {t \in shorter : Len(t) = n - 1}, x \in S}

\* ---------------------------------------------------------------- oracle
\* f"{x:.5f}": round to five fractional digits, ties to even.
Fmt5(x) ==
    LET q == x \div 10
        r == x % 10
    IN IF r > 5 \/ (r = 5 /\ q % 2 = 1) THEN q + 1 ELSE q

SegArgs(airportA, airportB) ==
    <<Fmt5(airportA.lat), Fmt5(airportA.lon), Fmt5(airportB.lat), Fmt5(airportB.lon)>>

Distances == {2, 150}
Failure == [fail |-> TRUE, plausible |-> FALSE, distance |-> 0]
Outcomes ==
    {[fail |-> FALSE, plausible |-> v, distance |-> d] : v \in BOOLEAN, d \in Distances}
        \cup {Failure}

OracleKeys(n) == {SegArgs(Airport(i), Airport(i + 1)) : i \in 1..(n - 1)}

\* plausible(lat, lng, a_lat, a_lon, b_lat, b_lon)
plausible(la, lo, args) ==
    IF WellFormed(la, lo) THEN oracle[args] ELSE Failure

\* ------------------------------------------------ pieces of the resolver
\* Variant: the walk also runs for the "unknown" sentinel.
HasRouteAlways(r) == TRUE

\* Variant: a record that already carries a verdict is returned as it is.
HasRouteCached(r) == r.airport_codes # "unknown" /\ "plausible" \notin DOMAIN r

\* if route["airport_codes"] != "unknown":
HasRoute(r) == r.airport_codes # "unknown"

\* Variant: the loop bound is one too small, the last pair is never tried.
LoopCondShort(i, r) == i < Len(r._airports) - 2

\* while a < len(route["_airports"]) - 1:
LoopCond(i, r) == i < Len(r._airports) - 1

\* b = a + 1
NextIndex(i) == i + 1

\* Variant: the break is missing, the walk goes on past a plausible pair.
AfterCheckNoBreak(out) == IF out.fail THEN "raise" ELSE "loop"

\* Variant: the break is not under the if, the walk ends after one pair.
AfterCheckAlwaysBreak(out) == IF out.fail THEN "raise" ELSE "set"

\* Variant: an exception of the oracle is caught and the next pair tried.
AfterCheckSwallow(out) == IF out.plausible THEN "set" ELSE "loop"

\* What follows the oracle call: an exception leaves the function, a
\* plausible verdict breaks out of the loop, anything else tries the next pair.
AfterCheck(out) ==
    IF out.fail THEN "raise" ELSE IF out.plausible THEN "set" ELSE "loop"

\* Variant: the airport list is consumed while the verdict is stored.
SetPlausibleClobber(r, v) == [plausible |-> v] @@ [r EXCEPT !._airports = <<>>]

\* route["plausible"] = is_plausible
SetPlausible(r, v) == [plausible |-> v] @@ r

\* --------------------------------------------------------------- helpers
NoRoute == [callsign |-> "none"]
NoPrev == [key |-> <<>>]
NoResult == [status |-> "none"]
Ok(content) == [status |-> "ok", content |-> content]
Error == [status |-> "error"]

KeyOf(p) == <<p.callsign, p.lat, p.lng>>

\* Python lists are 0-based.
At(s, i) == s[i + 1]

\* What the running resolve hands to its caller: the record, or the exception.
CurrentOut ==
    IF pc = "return"
    THEN [status |-> "ok", route |-> route, calls |-> calls,
          is_plausible |-> is_plausible, distance |-> distance]
    ELSE [status |-> "error", calls |-> calls]

\* The call get_route_for_callsign_lat_lng(p.callsign, p.lat, p.lng).
EnterResolve(p) ==
    /\ callsign' = p.callsign
    /\ lat' = p.lat
    /\ lng' = p.lng
    /\ route' = NoRoute
    /\ fetched' = NoRoute
    /\ a' = 0
    /\ is_plausible' = FALSE
    /\ distance' = 0
    /\ calls' = <<>>
    /\ pc' = "fetch"

\* --------------------------------------------------------------- actions
\* GET /api/0/route/{callsign}/{lat}/{lng}
ApiRoute3(p) ==
    /\ pc = "idle"
    /\ kind' = "route3"
    /\ planes' = <<p>>
    /\ idx' = 1
    /\ response' = <<>>
    /\ result' = NoResult
    /\ EnterResolve(p)
    /\ prev' = IF prev.key = KeyOf(p) THEN prev ELSE NoPrev
    /\ UNCHANGED <<store, oracle, sharing>>

\* GET /api/0/route/{callsign}
ApiRoute(cs, ok) ==
    /\ pc = "idle"
    /\ kind' = "route"
    /\ planes' = <<[callsign |-> cs]>>
    /\ idx' = 1
    /\ response' = <<>>
    /\ result' = IF ok THEN Ok(store[cs]) ELSE Error
    /\ pc' = "done"
    /\ UNCHANGED <<store, oracle, sharing, callsign, lat, lng, route, fetched, a,
                   is_plausible, distance, calls, prev>>

\* POST /api/0/routeset
ApiRouteset(ps) ==
    /\ pc = "idle"
    /\ kind' = "routeset"
    /\ planes' = ps
    /\ idx' = 1
    /\ response' = <<>>
    /\ IF ps = <<>>
       THEN /\ result' = Ok(<<>>)
            /\ pc' = "done"
            /\ UNCHANGED <<callsign, lat, lng, route, fetched, a, is_plausible,
                           distance, calls, prev>>
       ELSE /\ result' = NoResult
            /\ EnterResolve(ps[1])
            /\ prev' = NoPrev
    /\ UNCHANGED <<store, oracle, sharing>>

\* route = await redisVRS.get_route(callsign), and the test that follows it.
GetRoute(ok) ==
    /\ pc = "fetch"
    /\ IF ok
       THEN /\ route' = store[callsign]
            /\ fetched' = store[callsign]
            /\ pc' = IF HasRoute(route') THEN "loop" ELSE "return"
       ELSE /\ UNCHANGED <<route, fetched>>
            /\ pc' = "raise"
    /\ a' = 0
    /\ is_plausible' = FALSE
    /\ distance' = 0
    /\ UNCHANGED <<store, oracle, sharing, kind, planes, idx, callsign, lat, lng,
                   calls, response, result, prev>>

\* One pass of the while loop: the oracle call for the pair (a, a + 1).
CheckSegment ==
    /\ pc = "loop"
    /\ LoopCond(a, route)
    /\ LET b == NextIndex(a)
           airportA == At(route._airports, a)
           airportB == At(route._airports, b)
           out == plausible(lat, lng, SegArgs(airportA, airportB))
       IN /\ calls' = Append(calls, [a |-> a, b |-> b, out |-> out])
          /\ pc' = AfterCheck(out)
          /\ is_plausible' = IF out.fail THEN is_plausible ELSE out.plausible
          /\ distance' = IF out.fail THEN distance ELSE out.distance
          /\ a' = IF pc' = "loop" THEN b ELSE a
    /\ UNCHANGED <<store, oracle, sharing, kind, planes, idx, callsign, lat, lng,
                   route, fetched, response, result, prev>>

\* Past the loop: route["plausible"] = is_plausible. With a store that hands
\* out one object per callsign the write shows in every alias of it.
Annotate ==
    /\ \/ pc = "set"
       \/ pc = "loop" /\ ~LoopCond(a, route)
    /\ route' = SetPlausible(route, is_plausible)
    /\ IF sharing
       THEN /\ store' = [store EXCEPT ![callsign] = route']
            /\ response' = [k \in DOMAIN response |->
                              IF response[k].callsign = callsign THEN route'
                              ELSE response[k]]
       ELSE UNCHANGED <<store, response>>
    /\ pc' = "return"
    /\ UNCHANGED <<oracle, sharing, kind, planes, idx, callsign, lat, lng, fetched,
                   a, is_plausible, distance, calls, result, prev>>

\* return route, back in the endpoint that called resolve.
ReturnRoute ==
    /\ pc = "return"
    /\ IF kind = "route3"
       THEN /\ result' = Ok(route)
            /\ pc' = "done"
            /\ prev' = [key |-> KeyOf(planes[idx]), out |-> CurrentOut]
            /\ UNCHANGED <<idx, response, callsign, lat, lng, route, fetched, a,
                           is_plausible, distance, calls>>
       ELSE /\ response' = Append(response, route)
            /\ IF idx < Len(planes)
               THEN /\ idx' = idx + 1
                    /\ result' = result
                    /\ EnterResolve(planes[idx + 1])
                    /\ prev' = IF KeyOf(planes[idx]) = KeyOf(planes[idx + 1])
                               THEN [key |-> KeyOf(planes[idx]), out |-> CurrentOut]
                               ELSE NoPrev
               ELSE /\ result' = Ok(response')
                    /\ pc' = "done"
                    /\ prev' = NoPrev
                    /\ UNCHANGED <<idx, callsign, lat, lng, route, fetched, a,
                                   is_plausible, distance, calls>>
    /\ UNCHANGED <<store, oracle, sharing, kind, planes>>

\* An exception raised by the store or the oracle is caught nowhere: it
\* leaves resolve and the endpoint, and the request ends in an error.
Raise ==
    /\ pc = "raise"
    /\ result' = Error
    /\ pc' = "done"
    /\ prev' = IF kind = "route3" /\ route # NoRoute
               THEN [key |-> KeyOf(planes[idx]), out |-> CurrentOut]
               ELSE NoPrev
    /\ UNCHANGED <<store, oracle, sharing, kind, planes, idx, response, callsign,
                   lat, lng, route, fetched, a, is_plausible, distance, calls>>

\* The response is sent and the request's frame is gone.
Respond ==
    /\ pc = "done"
    /\ pc' = "idle"
    /\ kind' = "none"
    /\ planes' = <<>>
    /\ idx' = 1
    /\ response' = <<>>
    /\ result' = NoResult
    /\ callsign' = ""
    /\ lat' = ""
    /\ lng' = ""
    /\ route' = NoRoute
    /\ fetched' = NoRoute
    /\ a' = 0
    /\ is_plausible' = FALSE
    /\ distance' = 0
    /\ calls' = <<>>
    /\ UNCHANGED <<store, oracle, sharing, prev>>

\* ---------------------------------------------------------- specification
Init ==
    /\ \E n \in 2..MaxChain :
          /\ store = StoreWith(n)
          /\ oracle \in [OracleKeys(n) -> Outcomes]
    /\ sharing \in BOOLEAN
    /\ pc = "idle"
    /\ kind = "none"
    /\ planes = <<>>
    /\ idx = 1
    /\ callsign = ""
    /\ lat = ""
    /\ lng = ""
    /\ route = NoRoute
    /\ fetched = NoRoute
    /\ a = 0
    /\ is_plausible = FALSE
    /\ distance = 0
    /\ calls = <<>>
    /\ response = <<>>
    /\ result = NoResult
    /\ prev = NoPrev

Next ==
    \/ \E p \in Planes : ApiRoute3(p)
    \/ \E cs \in Callsigns, ok \in BOOLEAN : ApiRoute(cs, ok)
    \/ \E ps \in SeqsUpTo(BatchPlanes, MaxBatch) : ApiRouteset(ps)
    \/ \E ok \in BOOLEAN : GetRoute(ok)
    \/ CheckSegment
    \/ Annotate
    \/ ReturnRoute
    \/ Raise
    \/ Respond

Spec == Init /\ [][Next]_vars

\* ------------------------------------------------------------ properties
\* The running resolve holds a record the store delivered.
Fetched == pc \in {"loop", "set", "return", "raise", "done"} /\ route # NoRoute

\* A known route proper: a chain of at least two airports.
Chained == Fetched /\ route.airport_codes # "unknown" /\ Len(route._airports) >= 2

\* The segments (k, k + 1) of record r, numbered by k.
Segments(r) == 0..(Len(r._airports) - 2)

\* The oracle's answer for segment k of record r seen from (la, lo).
Verdict(la, lo, r, k) ==
    plausible(la, lo, SegArgs(At(r._airports, k), At(r._airports, k + 1)))

\* The running resolve has handed its record to the endpoint.
Returned == pc = "return" \/ (pc = "done" /\ kind = "route3" /\ result.status = "ok")

\* C1: for a route of N >= 2 airports one resolve calls the oracle at most
\* N - 1 times, the k-th call is for segment (k - 1, k), and no call follows
\* a call that returned plausible.
C1_CallsInChainOrder ==
    Chained =>
        /\ Len(calls) <= Len(route._airports) - 1
        /\ \A k \in 1..Len(calls) : calls[k].a = k - 1 /\ calls[k].b = k
        /\ \A k \in 1..(Len(calls) - 1) : ~calls[k].out.plausible

C1_Witness ==
    /\ Chained
    /\ pc = "return"
    /\ Len(route._airports) = 3
    /\ Len(calls) = 2
    /\ calls[2].out.plausible

\* C2: for a route whose airport_codes is "unknown" resolve returns the record
\* exactly as the store delivered it, without a plausible field, and makes no
\* oracle call.
C2_UnknownUntouched ==
    (Returned /\ fetched.airport_codes = "unknown") =>
        /\ route = fetched
        /\ "plausible" \notin DOMAIN route
        /\ calls = <<>>
        /\ (pc = "done" => result.content = fetched)

C2_Witness ==
    /\ pc = "done"
    /\ kind = "route3"
    /\ result.status = "ok"
    /\ result.content.airport_codes = "unknown"

\* C3: for a known route of N >= 2 airports the plausible value resolve sets
\* is true exactly if the oracle finds some segment plausible, and the distance
\* retained is then the one reported for the first plausible segment.
C3_FirstPlausibleWins ==
    (Returned /\ Chained) =>
        LET hits == {k \in Segments(route) : Verdict(lat, lng, route, k).plausible}
        IN /\ "plausible" \in DOMAIN route
           /\ route.plausible = (hits # {})
           /\ route.plausible =>
                 \E k \in hits :
                    /\ \A j \in hits : k <= j
                    /\ distance = Verdict(lat, lng, route, k).distance

C3_Witness ==
    /\ Returned
    /\ Chained
    /\ Len(calls) = 2
    /\ ~calls[1].out.plausible /\ calls[1].out.distance = 150
    /\ calls[2].out.plausible /\ calls[2].out.distance = 2
    /\ route.plausible
    /\ distance = 2

\* C4: if no segment of a known route of N >= 2 airports is plausible, resolve
\* checks all N - 1 segments, sets plausible to false and retains the distance
\* of the last segment (N - 2, N - 1), not the minimum.
C4_LastCheckedWins ==
    (Returned /\ Chained /\ \A k \in Segments(route) : ~Verdict(lat, lng, route, k).plausible) =>
        LET n == Len(route._airports)
        IN /\ Len(calls) = n - 1
           /\ route.plausible = FALSE
           /\ calls[n - 1].a = n - 2 /\ calls[n - 1].b = n - 1
           /\ distance = Verdict(lat, lng, route, n - 2).distance

C4_Witness ==
    /\ Returned
    /\ Chained
    /\ Len(calls) = 2
    /\ route.plausible = FALSE
    /\ calls[1].out.distance = 2
    /\ calls[2].out.distance = 150
    /\ distance = 150

\* What resolve yields for plane p taken alone: the segments the walk reaches
\* are those preceded only by completed, implausible checks.
Reached(p, r) ==
    {k \in Segments(r) :
        \A j \in 0..(k - 1) :
            ~Verdict(p.lat, p.lng, r, j).plausible /\ ~Verdict(p.lat, p.lng, r, j).fail}

ErrorMarker == [error |-> TRUE]

Alone(p) ==
    LET r == store[p.callsign]
    IN IF r.airport_codes = "unknown" THEN r
       ELSE IF \E k \in Reached(p, r) : Verdict(p.lat, p.lng, r, k).fail THEN ErrorMarker
       ELSE SetPlausible(r, \E k \in Reached(p, r) : Verdict(p.lat, p.lng, r, k).plausible)

BatchDone == pc = "done" /\ kind = "routeset"

\* C5: one item's oracle or store failure in a batch of two or more does not
\* abort the batch: the result has a slot per item, the failing item's slot
\* holds an error marker and every other slot the record the item gets alone.
C5_FailureIsolated ==
    (BatchDone /\ Len(planes) >= 2) =>
        /\ result.status = "ok"
        /\ Len(result.content) = Len(planes)
        /\ \A i \in 1..Len(planes) :
              \/ result.content[i] = ErrorMarker
              \/ Alone(planes[i]) # ErrorMarker /\ result.content[i] = Alone(planes[i])

\* C6: the output of a batch has the length of the input and its i-th entry is
\* the result for the i-th input item.
C6_OrderAndLength ==
    BatchDone =>
        /\ result.status = "ok"
        /\ DOMAIN result.content = DOMAIN planes
        /\ \A i \in DOMAIN planes :
              result.content[i] \in {ErrorMarker, Alone(planes[i])}

\* C7: after a resolve that returns a record, airport_codes = "unknown", an
\* empty chain, and plausible unset with no oracle call made all coincide;
\* plausible is never set on a record for which no oracle call was made.
C7_UnknownEmptyUnset ==
    Returned =>
        LET unknown == route.airport_codes = "unknown"
            empty == route._airports = <<>>
            unset == "plausible" \notin DOMAIN route /\ calls = <<>>
        IN /\ unknown <=> empty
           /\ empty <=> unset
           /\ "plausible" \in DOMAIN route => calls # <<>>

\* C8: a failed oracle check never becomes an implausible verdict: resolve
\* ends in an error handed to its caller, returns no record and leaves the
\* record as fetched; plausible = false is returned only when every segment
\* check completed and none was plausible.
C8_FailureNotImplausible ==
    /\ (\E k \in DOMAIN calls : calls[k].out.fail) =>
          /\ pc \in {"raise", "done"}
          /\ calls[Len(calls)].out.fail
          /\ route = fetched
          /\ pc = "done" => result = Error
    /\ (Returned /\ "plausible" \in DOMAIN route /\ route.plausible = FALSE) =>
          \A k \in Segments(route) :
             \E c \in DOMAIN calls :
                /\ calls[c].a = k
                /\ ~calls[c].out.fail
                /\ ~calls[c].out.plausible

C8_Witness ==
    /\ pc = "done"
    /\ kind = "route3"
    /\ result = Error
    /\ Len(calls) = 2
    /\ ~calls[1].out.fail /\ ~calls[1].out.plausible
    /\ calls[2].out.fail
    /\ lat = GoodPos.lat

\* C9: resolving the same callsign and position twice against an unchanged
\* store and a deterministic oracle yields the same record, verdict, distance
\* and oracle calls, also when the store hands out the same object twice.
C9_Idempotent ==
    (pc \in {"return", "raise"} /\ route # NoRoute /\ prev.key = <<callsign, lat, lng>>) =>
        prev.out = CurrentOut

C9_Witness ==
    /\ pc = "return"
    /\ sharing
    /\ prev.key = <<callsign, lat, lng>>
    /\ Len(calls) = 2
    /\ "plausible" \in DOMAIN fetched
    /\ route.plausible

\* C10: resolve changes nothing of the fetched record but the plausible field;
\* callsign, airport_codes and the airport chain stay as the store holds them
\* through every sequence of requests, and api_route returns the store's
\* record without an oracle call and without setting plausible.
C10_OnlyPlausibleAdded ==
    /\ \E n \in 2..MaxChain : \A cs \in Callsigns : Core(store[cs]) = StoreWith(n)[cs]
    /\ Fetched =>
          /\ Core(route) = Core(fetched)
          /\ Core(fetched) = Core(store[callsign])
          /\ route # fetched => route = SetPlausible(fetched, is_plausible)
    /\ \A k \in DOMAIN response : Core(response[k]) = Core(store[planes[k].callsign])
    /\ (pc = "done" /\ kind = "route" /\ result.status = "ok") =>
          /\ result.content = store[planes[1].callsign]
          /\ calls = <<>>
          /\ ~sharing => "plausible" \notin DOMAIN result.content

C10_Witness ==
    /\ pc = "return"
    /\ kind = "routeset"
    /\ idx = 2
    /\ Len(route._airports) >= 2
    /\ "plausible" \in DOMAIN route
    /\ "plausible" \notin DOMAIN fetched

====
